---- MODULE Spec2Model ----
(***************************************************************************)
(* Model of src/src/git.ts of lerna-changelog: the git readers             *)
(* changedPaths, listTagNames, lastTag, parseLogMessage and listCommits.   *)
(*                                                                         *)
(* Text is modelled as a sequence of tokens.  A token is either one of the *)
(* literal pieces of the log format ("hash<", ">", " ref<", " message<",   *)
(* " date<"), the line feed, or an opaque piece of payload text that       *)
(* contains none of these.  Every token sequence stands for the JavaScript *)
(* string that is the concatenation of its tokens, and no concatenation of *)
(* payload tokens spells a literal piece, so matching on tokens is         *)
(* matching on the characters of that string.                              *)
(***************************************************************************)
EXTENDS Naturals, Sequences, FiniteSets

VARIABLES
    repo,       \* what git answers: the environment of every command
    pc,         \* position of the synchronous caller
    args,       \* duplicateCheckBranches of the running listCommits
    idx,        \* number of duplicate-check branches already queried
    targetCommits, \* the local array of listCommits
    cmds,       \* external commands issued by the running listCommits
    op,         \* the last synchronous function called
    result,     \* value returned by the last synchronous call
    outcome,    \* "none", "returned" or "threw" for the last synchronous call
    calls,      \* changedPaths calls: sha, status, stdout, value
    parseIn,    \* the four field values a log line is written from
    parseOut    \* parseLogMessage of that line

vars == <<repo, pc, args, idx, targetCommits, cmds, op, result, outcome, calls,
          parseIn, parseOut>>

-----------------------------------------------------------------------------
(* Bounds of the model *)

MaxField == 2
MaxLines == 2
MaxBranchCommits == 1
MaxTags == 2
MaxCalls == 2

-----------------------------------------------------------------------------
(* Tokens *)

HASH == "hash<"
GT == ">"
REF == " ref<"
MSG == " message<"
DATE == " date<"
NL == "\n"

Max(S) == CHOOSE x \in S : \A y \in S : y <= x
Min(S) == CHOOSE x \in S : \A y \in S : x <= y

SeqsUpTo(S, n) == UNION {[1..k -> S] : k \in 0..n}

Range(s) == {s[i] : i \in 1..Len(s)}

-----------------------------------------------------------------------------
(* String.prototype.split("\n") and Array.prototype.filter(Boolean) *)

RECURSIVE SplitFrom(_, _, _)
SplitFrom(s, i, cur) ==
    IF i > Len(s) THEN <<cur>>
    ELSE IF s[i] = NL THEN <<cur>> \o SplitFrom(s, i + 1, <<>>)
    ELSE SplitFrom(s, i + 1, Append(cur, s[i]))

SplitLines(s) == SplitFrom(s, 1, <<>>)

NonEmptyString(x) == x # <<>>

KeepBlanks(xs) == xs

FilterBoolean(xs) == SelectSeq(xs, NonEmptyString)

(* What git prints for a list of one-line items, as execa hands it over:   *)
(* the items separated by line feeds, the final line feed stripped.        *)
RECURSIVE JoinLines(_)
JoinLines(ls) ==
    IF ls = <<>> THEN <<>>
    ELSE IF Len(ls) = 1 THEN ls[1]
    ELSE ls[1] \o <<NL>> \o JoinLines(Tail(ls))

-----------------------------------------------------------------------------
(* parseLogMessage *)

NULL == [null |-> TRUE]

CommitListItem(sha, refName, summary, date) ==
    [sha |-> sha, refName |-> refName, summary |-> summary, date |-> date]

(* The line git writes for --pretty=hash<%h> ref<%D> message<%s> date<%cd> *)
FormatLine(f) ==
    <<HASH>> \o f.sha \o <<GT, REF>> \o f.refName \o <<GT, MSG>>
        \o f.summary \o <<GT, DATE>> \o f.date \o <<GT>>

MarkerAt(l, j, m) == j + 1 <= Len(l) /\ l[j] = GT /\ l[j + 1] = m

(* Positions at which the remainder of the pattern can still match, from   *)
(* the last group back to the first.                                       *)
DateEnds(l, m) == {n \in (m + 2)..Len(l) : l[n] = GT}
DateMarks(l, k) == {m \in (k + 2)..Len(l) : MarkerAt(l, m, DATE) /\ DateEnds(l, m) # {}}
MsgMarks(l, j) == {k \in (j + 2)..Len(l) : MarkerAt(l, k, MSG) /\ DateMarks(l, k) # {}}
RefMarks(l, i) == {j \in (i + 2)..Len(l) : MarkerAt(l, j, REF) /\ MsgMarks(l, j) # {}}
MatchStarts(l) == {i \in 1..Len(l) : l[i] = HASH /\ RefMarks(l, i) # {}}

(* A backtracking matcher takes the leftmost start; each group is greedy,  *)
(* so among the matches it takes the longest first group, then the longest *)
(* second group, and so on.                                                *)
PickLazy(S) == Min(S)

PickGreedy(S) == Max(S)

RegexMatch(l) ==
    IF MatchStarts(l) = {} THEN <<>>
    ELSE LET i == Min(MatchStarts(l))
             j == PickGreedy(RefMarks(l, i))
             k == PickGreedy(MsgMarks(l, j))
             m == PickGreedy(DateMarks(l, k))
             n == PickGreedy(DateEnds(l, m))
         IN  << SubSeq(l, i, n),
                SubSeq(l, i + 1, j - 1),
                SubSeq(l, j + 2, k - 1),
                SubSeq(l, k + 2, m - 1),
                SubSeq(l, m + 2, n - 1) >>

parsePlaceholder(commit) ==
    LET parts == RegexMatch(commit)
    IN  IF Len(parts) = 0 THEN CommitListItem(<<>>, <<>>, <<>>, <<>>)
        ELSE CommitListItem(parts[2], parts[3], parts[4], parts[5])

parseLogMessage(commit) ==
    LET parts == RegexMatch(commit)
    IN  IF Len(parts) = 0 THEN NULL
        ELSE CommitListItem(parts[2], parts[3], parts[4], parts[5])

-----------------------------------------------------------------------------
(* The body of listCommits after the branch queries *)

Includes(xs, x) == x \in Range(xs)

IsItem(x) == x # NULL

Duplicate(tc, item) == Includes(tc, item.summary)

NotDuplicate(tc, item) == ~Includes(tc, item.summary)

MapParse(ls) == [i \in 1..Len(ls) |-> parseLogMessage(ls[i])]

FilterItems(xs) == SelectSeq(xs, IsItem)

FilterDuplicates(tc, items) ==
    LET Keep(item) == NotDuplicate(tc, item) IN SelectSeq(items, Keep)

Reverse(xs) == [i \in 1..Len(xs) |-> xs[Len(xs) + 1 - i]]

ParseCommitsReversed(stdout, tc) ==
    Reverse(FilterDuplicates(tc, FilterItems(MapParse(FilterBoolean(SplitLines(stdout))))))

ParseCommits(stdout, tc) ==
    FilterDuplicates(tc, FilterItems(MapParse(FilterBoolean(SplitLines(stdout)))))

BranchSummaries(stdout) == FilterBoolean(SplitLines(stdout))

-----------------------------------------------------------------------------
(* The repository: what each git command prints *)

Branches == {"b1", "b2"}
Shas == {"s1", "s2"}
TagNames == {<<"v1">>, <<"v2">>, <<"v3">>, <<"v4">>}
Summaries == {<<>>, <<"fix">>, <<"feat">>}
PathLists == {<<>>, << <<"p">> >>, << <<"p">>, <<"q">> >>}
CommitIds == <<"c1", "c2", "c3", "c4", "c5", "c6">>

Record(i, summary) == CommitListItem(<<CommitIds[i]>>, <<>>, summary, <<"d">>)

DropMarker(l, m) == SelectSeq(l, LAMBDA t : t # m)

(* The lines git log can print for the i-th commit of the range, and lines *)
(* that are not in the format.                                             *)
LineChoices(i) ==
    {FormatLine(Record(i, s)) : s \in Summaries}
    \cup {FormatLine(Record(i, <<"fix", GT, MSG, "feat">>))}
    \cup { <<>>,
           SubSeq(FormatLine(Record(i, <<"fix">>)), 1, 7),
           DropMarker(FormatLine(Record(i, <<"feat">>)), MSG) }

RangeOutputs == {ls \in SeqsUpTo(UNION {LineChoices(i) : i \in 1..MaxLines}, MaxLines) :
                    \A i \in 1..Len(ls) : ls[i] \in LineChoices(i)}

NoDuplicates(s) == \A i, j \in 1..Len(s) : i # j => s[i] # s[j]

TagLists == {ts \in SeqsUpTo(TagNames, MaxTags) : NoDuplicates(ts)}

DefaultRepo ==
    [ branchLog |-> [b \in Branches |-> << <<"fix">> >>],
      rangeLines |-> << FormatLine(Record(1, <<"fix">>)), FormatLine(Record(2, <<"feat">>)) >>,
      tags |-> << <<"v1">> >>,
      show |-> [s \in Shas |-> << <<"p">> >>] ]

Quiet ==
    /\ pc = "idle" /\ args = <<>> /\ idx = 0 /\ targetCommits = <<>>
    /\ cmds = <<>> /\ op = "none" /\ result = <<>> /\ outcome = "none"
    /\ calls = <<>>
    /\ parseIn = CommitListItem(<<"a">>, <<>>, <<>>, <<>>) /\ parseOut = NULL

-----------------------------------------------------------------------------
(* listCommits *)

Issue(cmd, arg, ok) == Append(cmds, [cmd |-> cmd, arg |-> arg, ok |-> ok])

Throw ==
    /\ pc' = "idle"
    /\ outcome' = "threw"
    /\ UNCHANGED <<result, targetCommits, idx>>

ListCommitsCall(branches) ==
    /\ pc = "idle"
    /\ pc' = "fetch"
    /\ op' = "listCommits"
    /\ args' = branches
    /\ idx' = 0
    /\ targetCommits' = <<>>
    /\ cmds' = <<>>
    /\ result' = <<>>
    /\ outcome' = "none"
    /\ UNCHANGED <<repo, calls, parseIn, parseOut>>

FetchRetrying ==
    /\ pc = "fetch"
    /\ \E ok \in BOOLEAN :
        /\ cmds' = Issue("fetch", "", ok)
        /\ pc' = IF ~ok THEN "fetch" ELSE IF Len(args) = 0 THEN "range" ELSE "branches"
        /\ targetCommits' = <<>>
        /\ UNCHANGED <<result, outcome, idx>>
    /\ UNCHANGED <<repo, args, op, calls, parseIn, parseOut>>

Fetch ==
    /\ pc = "fetch"
    /\ \E ok \in BOOLEAN :
        /\ cmds' = Issue("fetch", "", ok)
        /\ IF ok
           THEN /\ pc' = IF Len(args) = 0 THEN "range" ELSE "branches"
                /\ targetCommits' = <<>>
                /\ UNCHANGED <<result, outcome, idx>>
           ELSE Throw
    /\ UNCHANGED <<repo, args, op, calls, parseIn, parseOut>>

BranchLogSwallowing ==
    /\ pc = "branches"
    /\ idx < Len(args)
    /\ \E ok \in BOOLEAN :
        /\ cmds' = Issue("log", args[idx + 1], ok)
        /\ targetCommits' = targetCommits
              \o (IF ok THEN BranchSummaries(JoinLines(repo.branchLog[args[idx + 1]]))
                        ELSE <<>>)
        /\ idx' = idx + 1
        /\ pc' = IF idx + 1 = Len(args) THEN "range" ELSE "branches"
        /\ UNCHANGED <<result, outcome>>
    /\ UNCHANGED <<repo, args, op, calls, parseIn, parseOut>>

BranchLog ==
    /\ pc = "branches"
    /\ idx < Len(args)
    /\ \E ok \in BOOLEAN :
        /\ cmds' = Issue("log", args[idx + 1], ok)
        /\ IF ok
           THEN /\ targetCommits' = targetCommits
                      \o BranchSummaries(JoinLines(repo.branchLog[args[idx + 1]]))
                /\ idx' = idx + 1
                /\ pc' = IF idx + 1 = Len(args) THEN "range" ELSE "branches"
                /\ UNCHANGED <<result, outcome>>
           ELSE Throw
    /\ UNCHANGED <<repo, args, op, calls, parseIn, parseOut>>

RangeLog ==
    /\ pc = "range"
    /\ \E ok \in BOOLEAN :
        /\ cmds' = Issue("log", "from..to", ok)
        /\ IF ok
           THEN /\ result' = ParseCommits(JoinLines(repo.rangeLines), targetCommits)
                /\ outcome' = "returned"
                /\ pc' = "idle"
                /\ UNCHANGED <<targetCommits, idx>>
           ELSE Throw
    /\ UNCHANGED <<repo, args, op, calls, parseIn, parseOut>>

BranchArgs == {<<>>, <<"b1">>, <<"b2">>, <<"b1", "b2">>}

NextCommits ==
    \/ \E branches \in BranchArgs : ListCommitsCall(branches)
    \/ Fetch
    \/ BranchLog
    \/ RangeLog

Init ==
    /\ Quiet
    /\ \E b1 \in SeqsUpTo(Summaries, MaxBranchCommits),
          b2 \in {<<>>, << <<"feat">> >>},
          ls \in RangeOutputs :
        repo = [DefaultRepo EXCEPT !.branchLog = [b \in Branches |-> IF b = "b1" THEN b1 ELSE b2],
                                   !.rangeLines = ls]

Next == NextCommits

Spec == Init /\ [][Next]_vars

-----------------------------------------------------------------------------
(* listTagNames and lastTag *)

ListTagNamesCall ==
    /\ pc = "idle"
    /\ pc' = "tag"
    /\ op' = "listTagNames"
    /\ cmds' = <<>>
    /\ result' = <<>>
    /\ outcome' = "none"
    /\ UNCHANGED <<repo, args, idx, targetCommits, calls, parseIn, parseOut>>

TagExec ==
    /\ pc = "tag"
    /\ \E ok \in BOOLEAN :
        /\ cmds' = Issue("tag", "", ok)
        /\ IF ok
           THEN /\ result' = FilterBoolean(SplitLines(JoinLines(repo.tags)))
                /\ outcome' = "returned"
                /\ pc' = "idle"
                /\ UNCHANGED <<targetCommits, idx>>
           ELSE Throw
    /\ UNCHANGED <<repo, args, op, calls, parseIn, parseOut>>

LastTagCall ==
    /\ pc = "idle"
    /\ pc' = "describe"
    /\ op' = "lastTag"
    /\ cmds' = <<>>
    /\ result' = <<>>
    /\ outcome' = "none"
    /\ UNCHANGED <<repo, args, idx, targetCommits, calls, parseIn, parseOut>>

(* git describe prints the nearest reachable tag, and fails without one. *)
DescribeExec ==
    /\ pc = "describe"
    /\ \/ \E t \in Range(repo.tags) :
            /\ cmds' = Issue("describe", "", TRUE)
            /\ result' = t
            /\ outcome' = "returned"
            /\ pc' = "idle"
            /\ UNCHANGED <<targetCommits, idx>>
       \/ /\ cmds' = Issue("describe", "", FALSE)
          /\ Throw
    /\ UNCHANGED <<repo, args, op, calls, parseIn, parseOut>>

NextTags ==
    \/ ListTagNamesCall
    \/ TagExec
    \/ LastTagCall
    \/ DescribeExec

InitTags ==
    /\ Quiet
    /\ \E ts \in TagLists : repo = [DefaultRepo EXCEPT !.tags = ts]

SpecTags == InitTags /\ [][NextTags]_vars

-----------------------------------------------------------------------------
(* changedPaths: execa returns a promise; the function resumes after the   *)
(* await when the process has exited and the event loop is free.           *)

Call(sha) == [sha |-> sha, status |-> "pending", stdout |-> <<>>, value |-> <<>>]

ChangedPathsCall(sha) ==
    /\ pc = "idle"
    /\ Len(calls) < MaxCalls
    /\ calls' = Append(calls, Call(sha))
    /\ UNCHANGED <<repo, pc, args, idx, targetCommits, cmds, op, result, outcome,
                   parseIn, parseOut>>

ShowExit(c) ==
    /\ pc = "idle"
    /\ calls[c].status = "pending"
    /\ \E ok \in BOOLEAN :
        calls' = [calls EXCEPT ![c] =
                    IF ok THEN [calls[c] EXCEPT !.status = "exited",
                                                !.stdout = JoinLines(repo.show[calls[c].sha])]
                          ELSE [calls[c] EXCEPT !.status = "rejected"]]
    /\ UNCHANGED <<repo, pc, args, idx, targetCommits, cmds, op, result, outcome,
                   parseIn, parseOut>>

SharedStdout(c) == calls[Len(calls)].stdout

OwnStdout(c) == calls[c].stdout

ChangedPathsResume(c) ==
    /\ pc = "idle"
    /\ calls[c].status = "exited"
    /\ calls' = [calls EXCEPT ![c] = [calls[c] EXCEPT !.status = "resolved",
                                                      !.value = SplitLines(OwnStdout(c))]]
    /\ UNCHANGED <<repo, pc, args, idx, targetCommits, cmds, op, result, outcome,
                   parseIn, parseOut>>

NextAsync ==
    \/ \E sha \in Shas : ChangedPathsCall(sha)
    \/ \E c \in 1..Len(calls) : ShowExit(c)
    \/ \E c \in 1..Len(calls) : ChangedPathsResume(c)
    \/ NextTags
    \/ NextCommits

InitAsync ==
    /\ Quiet
    /\ \E sh \in [Shas -> PathLists] : repo = [DefaultRepo EXCEPT !.show = sh]

SpecAsync == InitAsync /\ [][NextAsync]_vars

-----------------------------------------------------------------------------
(* parseLogMessage on the line written from four field values *)

ExampleFields ==
    CommitListItem(<<"abc123">>, <<"tag: v1.2.0">>, <<"Fix bug">>, <<"2024-01-15">>)

FieldTuples ==
    {CommitListItem(h, r, s, d) :
        h \in SeqsUpTo({"a"}, MaxField),
        r \in SeqsUpTo({GT, REF}, MaxField),
        s \in SeqsUpTo({"s", GT, MSG}, MaxField),
        d \in SeqsUpTo({"d", GT}, MaxField)}
    \cup {ExampleFields}

ParseStep ==
    /\ pc = "parse"
    /\ parseOut' = parseLogMessage(FormatLine(parseIn))
    /\ pc' = "idle"
    /\ op' = "parseLogMessage"
    /\ UNCHANGED <<repo, args, idx, targetCommits, cmds, result, outcome, calls, parseIn>>

NextParse == ParseStep

InitParse ==
    /\ repo = DefaultRepo
    /\ pc = "parse" /\ args = <<>> /\ idx = 0 /\ targetCommits = <<>>
    /\ cmds = <<>> /\ op = "none" /\ result = <<>> /\ outcome = "none"
    /\ calls = <<>>
    /\ parseIn \in FieldTuples /\ parseOut = NULL

SpecParse == InitParse /\ [][NextParse]_vars

-----------------------------------------------------------------------------
(* Properties of listCommits, under Spec *)

Last(s) == s[Len(s)]

Returned == op = "listCommits" /\ outcome = "returned"

(* A line is in the structured format when it holds hash<, a non-empty     *)
(* text, "> ref<", a text, "> message<", a text, "> date<", a text and     *)
(* ">", in this order.                                                     *)
WellFormedLine(l) ==
    \E i \in 1..Len(l) : l[i] = HASH /\
      \E j \in (i + 2)..Len(l) : l[j] = GT /\ j < Len(l) /\ l[j + 1] = REF /\
        \E k \in (j + 2)..Len(l) : l[k] = GT /\ k < Len(l) /\ l[k + 1] = MSG /\
          \E m \in (k + 2)..Len(l) : l[m] = GT /\ m < Len(l) /\ l[m + 1] = DATE /\
            \E n \in (m + 2)..Len(l) : l[n] = GT

WellFormedLines == SelectSeq(repo.rangeLines, WellFormedLine)

RecordsOfRange == [i \in 1..Len(WellFormedLines) |-> parseLogMessage(WellFormedLines[i])]

Excluded(r) == r.summary \in Range(targetCommits)

Pick(b, S) ==
    LET F[i \in 0..Len(b)] ==
            IF i = 0 THEN <<>>
            ELSE IF i \in S THEN Append(F[i - 1], b[i]) ELSE F[i - 1]
    IN  F[Len(b)]

IsSubsequence(a, b) == \E S \in SUBSET (1..Len(b)) : a = Pick(b, S)

(* C1, as stated: with one duplicate-check branch, no returned record has  *)
(* the summary of a commit of origin/master..origin/branch.                *)
C1_NoBranchSummaryReturned ==
    (Returned /\ Len(args) = 1) =>
        \A i \in 1..Len(result) :
            result[i].summary \notin Range(repo.branchLog[args[1]])

(* C1 for the summaries that are not empty: this much the code does. *)
C1_NoNonEmptyBranchSummaryReturned ==
    (Returned /\ Len(args) = 1) =>
        \A i \in 1..Len(result) :
            result[i].summary # <<>> =>
                result[i].summary \notin Range(repo.branchLog[args[1]])

(* C2: a line that is not in the format leaves no trace in the result: no  *)
(* error, no null, and the records of the well-formed lines that are not   *)
(* excluded are returned in the order of their lines.                      *)
C2_MalformedLinesDropped ==
    (op = "listCommits" /\ cmds # <<>> /\ Last(cmds).arg = "from..to" /\ Last(cmds).ok) =>
        /\ outcome = "returned"
        /\ \A i \in 1..Len(result) : result[i] # NULL
        /\ result = SelectSeq(RecordsOfRange, LAMBDA r : ~Excluded(r))

C2_Witness ==
    /\ Returned
    /\ Len(repo.rangeLines) = 2
    /\ repo.rangeLines[1] # <<>> /\ ~WellFormedLine(repo.rangeLines[1])
    /\ WellFormedLine(repo.rangeLines[2])
    /\ Len(result) = 1

(* C3: without duplicate-check branches the result has one record for each *)
(* well-formed line of the range output.                                   *)
C3_NoBranchesNoFilter ==
    (Returned /\ args = <<>>) =>
        Len(result) = Cardinality({i \in 1..Len(repo.rangeLines) :
                                      WellFormedLine(repo.rangeLines[i])})

C3_Witness ==
    /\ Returned /\ args = <<>>
    /\ Len(result) = 2

(* C6: the fetch is the first command of an invocation and is issued once. *)
C6_FetchFirstOnce ==
    /\ (op = "listCommits" /\ pc # "fetch") => cmds # <<>>
    /\ cmds # <<>> =>
        /\ cmds[1].cmd = "fetch"
        /\ \A i \in 2..Len(cmds) : cmds[i].cmd # "fetch"

C6_Witness ==
    /\ op = "listCommits" /\ outcome = "threw"
    /\ Len(cmds) = 1 /\ cmds[1].cmd = "fetch" /\ ~cmds[1].ok

(* C7: a failing command is the last command of the invocation, which      *)
(* throws and returns nothing.                                             *)
C7_FailurePropagates ==
    op = "listCommits" =>
        /\ \A i \in 1..(Len(cmds) - 1) : cmds[i].ok
        /\ (cmds # <<>> /\ ~Last(cmds).ok) =>
              (outcome = "threw" /\ pc = "idle" /\ result = <<>>)
        /\ outcome = "returned" => \A i \in 1..Len(cmds) : cmds[i].ok

C7_Witness ==
    /\ op = "listCommits" /\ outcome = "threw"
    /\ Len(cmds) = 2 /\ cmds[2].cmd = "log" /\ ~cmds[2].ok
    /\ Len(args) = 2

(* C8: the result is a subsequence of the records parsed from the range    *)
(* output.                                                                 *)
C8_OrderPreserved ==
    Returned => IsSubsequence(result, RecordsOfRange)

C8_Witness ==
    /\ Returned
    /\ Len(result) = 2 /\ result[1] # result[2]
    /\ targetCommits # <<>>

-----------------------------------------------------------------------------
(* Properties of parseLogMessage, under SpecParse *)

Delimiters == {REF, MSG, DATE}

ContainsDelimiter(f) == \E i \in 1..(Len(f) - 1) : f[i] = GT /\ f[i + 1] \in Delimiters

WellFormedFields(f) ==
    /\ f.sha # <<>>
    /\ ~ContainsDelimiter(f.sha) /\ ~ContainsDelimiter(f.refName)
    /\ ~ContainsDelimiter(f.summary) /\ ~ContainsDelimiter(f.date)

(* C4, amended: a line written from a non-empty sha and fields that hold   *)
(* none of the delimiters "> ref<", "> message<", "> date<" parses to      *)
(* these four values, and writing the record again gives the line again.   *)
C4_RoundTrip ==
    (op = "parseLogMessage" /\ WellFormedFields(parseIn)) =>
        /\ parseOut # NULL
        /\ parseOut = parseIn
        /\ FormatLine(parseOut) = FormatLine(parseIn)

(* C4, as stated: every line written from four field values, the sha not   *)
(* empty, parses to these four values.                                     *)
C4_RoundTripAnyFields ==
    (op = "parseLogMessage" /\ parseIn.sha # <<>>) => parseOut = parseIn

C4_Witness ==
    /\ op = "parseLogMessage"
    /\ parseIn = ExampleFields
    /\ parseOut.sha = <<"abc123">> /\ parseOut.refName = <<"tag: v1.2.0">>
    /\ parseOut.summary = <<"Fix bug">> /\ parseOut.date = <<"2024-01-15">>

-----------------------------------------------------------------------------
(* Properties of listTagNames, under SpecTags *)

(* C10: listTagNames returns the tags of the repository in the order git   *)
(* lists them, and no empty string; no tags give the empty sequence.       *)
C10_TagNames ==
    (op = "listTagNames" /\ outcome = "returned") =>
        /\ result = repo.tags
        /\ \A i \in 1..Len(result) : result[i] # <<>>

C10_Witness ==
    /\ op = "listTagNames" /\ outcome = "returned"
    /\ repo.tags = <<>> /\ result = <<>>

-----------------------------------------------------------------------------
(* Properties of changedPaths, under SpecAsync *)

Resolved(c) == calls[c].status = "resolved"

(* C5, as stated: the paths hold no empty string, and a commit without     *)
(* changed paths gives the empty sequence.                                 *)
C5_NoBlankPaths ==
    \A c \in 1..Len(calls) : Resolved(c) =>
        /\ \A i \in 1..Len(calls[c].value) : calls[c].value[i] # <<>>
        /\ repo.show[calls[c].sha] = <<>> => calls[c].value = <<>>

(* A resolved call holds the lines git printed for its own sha. *)
OwnResult ==
    \A c \in 1..Len(calls) : Resolved(c) =>
        /\ calls[c].value = SplitLines(JoinLines(repo.show[calls[c].sha]))
        /\ FilterBoolean(calls[c].value) = repo.show[calls[c].sha]

(* While a synchronous function runs, no call starts, settles or resumes. *)
Blocking == pc # "idle" => calls' = calls

(* C9: several changedPaths calls may be in flight; each resolves to the   *)
(* lines git printed for its own sha, whatever the other calls do and in   *)
(* whatever order they complete; listTagNames, lastTag and listCommits     *)
(* block the caller: no call starts or resumes while one of them runs.     *)
C9_AsyncIndependentSyncBlocking == []OwnResult /\ [][Blocking]_vars

C9_Witness ==
    /\ Len(calls) = 2
    /\ calls[1].sha # calls[2].sha
    /\ repo.show[calls[1].sha] # repo.show[calls[2].sha]
    /\ calls[1].status = "pending"
    /\ Resolved(2)

====
